---- MODULE Spec2Model ----
(***************************************************************************)
(* Scoring and aggregation pipeline of the PUBG tournament leaderboard:    *)
(* the match_screenshots / teams tables with their triggers, the           *)
(* analyze-screenshot edge function (AI extraction with retries, record    *)
(* update, team recompute) and the admin handlers that edit, insert and    *)
(* delete match records.                                                   *)
(***************************************************************************)
EXTENDS Integers, FiniteSets, Sequences, TLC

(***************************************************************************)
(* Bounds of the model.                                                    *)
(***************************************************************************)
NumTeams == 2
MaxRecords == 2
PPSpan == 60
MaxFiles == 5

Teams == 1..NumTeams
RecIds == 1..MaxRecords

(* SQL NULL / JS null of a nullable INT column.                            *)
NULL == -9999

(* <<placement, kills>> pairs the AI gateway can extract: a win with kills, *)
(* a scoring placement without kills, and a pair outside 1..18 and below 0 *)
(* (the tool schema only says "integer").                                  *)
AIResults == {<<1, 4>>, <<2, 0>>, <<19, -1>>}

(* <<placement, kills>> pairs an admin can type into a form: the valid     *)
(* ones above, and pairs beyond each limit the forms check.                *)
FormInputs == {<<1, 4>>, <<2, 0>>, <<0, 0>>, <<19, 0>>, <<1, -1>>, <<1, 51>>}

(* The same for the ManualPointsEntry form.                                *)
EntryInputs == {<<1, 4>>, <<2, 0>>, <<0, 0>>, <<19, 0>>, <<1, -1>>}

(* HTTP statuses the AI gateway answers with.                              *)
AIStatuses == {200, 400, 402, 429, 500}

VARIABLES
  records,   \* match_screenshots: id -> row, or NoRow when absent
  teams,     \* teams: id -> the six derived columns
  nextId,    \* next match_screenshots id to generate
  fn,        \* the analyze-screenshot invocation in flight, or its outcome
  adm,       \* the admin ScreenshotVerification handler in flight, or its outcome
  probe,     \* input and outputs of the last evaluation of a pure function
  up         \* the upload handler (handleFileUpload) in flight, or its outcome

vars == <<records, teams, nextId, fn, adm, probe, up>>

NoRow == [team |-> 0, placement |-> NULL, kills |-> NULL, points |-> NULL]

Row(t, p, k, pts) == [team |-> t, placement |-> p, kills |-> k, points |-> pts]

(***************************************************************************)
(* Placement-to-points, as each place of the code computes it.             *)
(***************************************************************************)
\* JS `x || d`: null, undefined and 0 are falsy.
JsOr(x, d) == IF x = NULL \/ x = 0 THEN d ELSE x

\* index.ts: const PLACEMENT_POINTS = {1: 10, 2: 6, 3: 5, 4: 4, 5: 3, 6: 2, 7: 1, 8: 1}
PLACEMENT_POINTS == <<10, 6, 5, 4, 3, 2, 1, 1>>

\* index.ts: PLACEMENT_POINTS[placement] || 0 (a missing key is undefined)
EdgePlacementPoints(placement) ==
  IF placement \in DOMAIN PLACEMENT_POINTS
    THEN JsOr(PLACEMENT_POINTS[placement], 0)
    ELSE 0

\* variant: the CASE stops at seventh place
calculate_placement_points_top7(placement) ==
  CASE placement = 1 -> 10
    [] placement = 2 -> 6
    [] placement = 3 -> 5
    [] placement = 4 -> 4
    [] placement = 5 -> 3
    [] placement = 6 -> 2
    [] placement = 7 -> 1
    [] OTHER -> 0

\* SQL calculate_placement_points: CASE placement WHEN .. ELSE 0 (NULL matches no WHEN)
calculate_placement_points(placement) ==
  CASE placement = 1 -> 10
    [] placement = 2 -> 6
    [] placement = 3 -> 5
    [] placement = 4 -> 4
    [] placement = 5 -> 3
    [] placement = 6 -> 2
    [] placement = 7 -> 1
    [] placement = 8 -> 1
    [] OTHER -> 0

\* client @/types/tournament: KILL_POINTS, PLACEMENT_POINTS and
\* calculatePoints(placement, kills) = (PLACEMENT_POINTS[placement] || 0) + kills * KILL_POINTS
KILL_POINTS == 1

ClientPlacementPoints(placement) ==
  IF placement \in 1..8
    THEN JsOr(PLACEMENT_POINTS[placement], 0)
    ELSE 0

calculatePoints(placement, kills) ==
  ClientPlacementPoints(placement) + kills * KILL_POINTS

(***************************************************************************)
(* Team recomputation, as each place of the code computes it.              *)
(***************************************************************************)
RECURSIVE Sum(_, _)
Sum(f, S) ==
  IF S = {} THEN 0
  ELSE LET x == CHOOSE y \in S : TRUE IN f[x] + Sum(f, S \ {x})

\* SELECT ... FROM match_screenshots WHERE team_id = t
TeamRows(recs, t) == {i \in RecIds : recs[i].team = t}

Stats(tp, pp, kp, tk, mp, fw) ==
  [total_points |-> tp, placement_points |-> pp, kill_points |-> kp,
   total_kills |-> tk, matches_played |-> mp, first_place_wins |-> fw]

\* teams columns: INT DEFAULT 0
ZeroStats == Stats(0, 0, 0, 0, 0, 0)

\* SQL COALESCE(x, d)
COALESCE(x, d) == IF x = NULL THEN d ELSE x

\* variant: the new sums are added to the stored columns
recalculate_team_stats_delta(recs, p_team_id) ==
  LET ms == TeamRows(recs, p_team_id)
      v_placement_points ==
        Sum([i \in ms |-> calculate_placement_points(recs[i].placement)], ms)
      v_total_kills == Sum([i \in ms |-> COALESCE(recs[i].kills, 0)], ms)
      old == teams[p_team_id]
  IN Stats(old.total_points + v_placement_points + v_total_kills,
           old.placement_points + v_placement_points,
           old.kill_points + v_total_kills, old.total_kills + v_total_kills,
           old.matches_played + Cardinality(ms),
           old.first_place_wins
             + Sum([i \in ms |-> IF recs[i].placement = 1 THEN 1 ELSE 0], ms))

\* variant: matches_played is COUNT(DISTINCT match_number)
recalculate_team_stats_by_match(recs, p_team_id) ==
  LET ms == TeamRows(recs, p_team_id)
      v_placement_points ==
        Sum([i \in ms |-> calculate_placement_points(recs[i].placement)], ms)
      v_total_kills == Sum([i \in ms |-> COALESCE(recs[i].kills, 0)], ms)
      v_matches == Cardinality({recs[i].match_number : i \in ms} \ {NULL})
      v_wwcd == Sum([i \in ms |-> IF recs[i].placement = 1 THEN 1 ELSE 0], ms)
  IN Stats(v_placement_points + v_total_kills, v_placement_points, v_total_kills,
           v_total_kills, v_matches, v_wwcd)

\* SQL recalculate_team_stats(p_team_id): the row UPDATE teams writes
recalculate_team_stats(recs, p_team_id) ==
  LET ms == TeamRows(recs, p_team_id)
      v_placement_points ==
        Sum([i \in ms |-> calculate_placement_points(recs[i].placement)], ms)
      v_total_kills == Sum([i \in ms |-> COALESCE(recs[i].kills, 0)], ms)
      v_matches == Cardinality(ms)
      v_wwcd == Sum([i \in ms |-> IF recs[i].placement = 1 THEN 1 ELSE 0], ms)
      v_kill_points == v_total_kills
  IN Stats(v_placement_points + v_kill_points, v_placement_points, v_kill_points,
           v_total_kills, v_matches, v_wwcd)

\* variant: rows not yet analysed are left out of the selected rows
EdgeTeamStatsAnalysedOnly(recs, team_id) ==
  LET teamScreenshots == {i \in TeamRows(recs, team_id) : recs[i].placement # NULL}
      totalKills == Sum([i \in teamScreenshots |-> JsOr(recs[i].kills, 0)], teamScreenshots)
  IN Stats(Sum([i \in teamScreenshots |-> JsOr(recs[i].points, 0)], teamScreenshots),
           Sum([i \in teamScreenshots |-> EdgePlacementPoints(JsOr(recs[i].placement, 0))],
               teamScreenshots),
           totalKills, totalKills, Cardinality(teamScreenshots),
           Cardinality({i \in teamScreenshots : recs[i].placement = 1}))

\* variant: the total is the sum of the placement points
EdgeTeamStatsPlacementTotal(recs, team_id) ==
  LET teamScreenshots == TeamRows(recs, team_id)
      totalPlacementPoints ==
        Sum([i \in teamScreenshots |-> EdgePlacementPoints(JsOr(recs[i].placement, 0))],
            teamScreenshots)
      totalKills == Sum([i \in teamScreenshots |-> JsOr(recs[i].kills, 0)], teamScreenshots)
  IN Stats(totalPlacementPoints, totalPlacementPoints, totalKills, totalKills,
           Cardinality(teamScreenshots),
           Cardinality({i \in teamScreenshots : recs[i].placement = 1}))

\* index.ts 185-195: team stats from the selected rows
EdgeTeamStats(recs, team_id) ==
  LET teamScreenshots == TeamRows(recs, team_id)
      totalTeamPoints == Sum([i \in teamScreenshots |-> JsOr(recs[i].points, 0)], teamScreenshots)
      totalPlacementPoints ==
        Sum([i \in teamScreenshots |-> EdgePlacementPoints(JsOr(recs[i].placement, 0))],
            teamScreenshots)
      totalKills == Sum([i \in teamScreenshots |-> JsOr(recs[i].kills, 0)], teamScreenshots)
      totalKillPoints == totalKills
      matchesPlayed == Cardinality(teamScreenshots)
      firstPlaceWins == Cardinality({i \in teamScreenshots : recs[i].placement = 1})
  IN Stats(totalTeamPoints, totalPlacementPoints, totalKillPoints, totalKills,
           matchesPlayed, firstPlaceWins)

\* variant: the placement points are computed with the row's kills
ClientTeamStatsWithKills(recs, team_id) ==
  LET teamData == TeamRows(recs, team_id)
      totalKills == Sum([i \in teamData |-> JsOr(recs[i].kills, 0)], teamData)
  IN Stats(Sum([i \in teamData |-> JsOr(recs[i].points, 0)], teamData),
           Sum([i \in teamData |->
                  calculatePoints(JsOr(recs[i].placement, 0), JsOr(recs[i].kills, 0))],
               teamData),
           totalKills, totalKills, Cardinality(teamData),
           Cardinality({i \in teamData : recs[i].placement = 1}))

\* ScreenshotVerification.tsx 188-197 and 283-292: team stats from the selected rows
ClientTeamStats(recs, team_id) ==
  LET teamData == TeamRows(recs, team_id)
      totalPoints == Sum([i \in teamData |-> JsOr(recs[i].points, 0)], teamData)
      placementPoints ==
        Sum([i \in teamData |-> calculatePoints(JsOr(recs[i].placement, 0), 0)], teamData)
      totalKills == Sum([i \in teamData |-> JsOr(recs[i].kills, 0)], teamData)
      killPoints == totalKills
      matchesPlayed == Cardinality(teamData)
      firstPlaceWins == Cardinality({i \in teamData : recs[i].placement = 1})
  IN Stats(totalPoints, placementPoints, killPoints, totalKills, matchesPlayed,
           firstPlaceWins)

(***************************************************************************)
(* The record store. Every store call, together with the row triggers it   *)
(* fires, is one transaction and so one step.                              *)
(***************************************************************************)
Exists(recs, id) == id \in RecIds /\ recs[id] # NoRow

\* variant: the trigger is declared AFTER INSERT OR UPDATE only
tg_recalculate_insert_update(TG_OP, old_row, new_row, recs, tms) ==
  IF TG_OP = "DELETE"
    THEN tms
    ELSE [tms EXCEPT ![new_row.team] = recalculate_team_stats(recs, new_row.team)]

\* tg_recalculate_team_stats: AFTER INSERT OR UPDATE OR DELETE, FOR EACH ROW
tg_recalculate_team_stats(TG_OP, old_row, new_row, recs, tms) ==
  IF TG_OP = "DELETE"
    THEN [tms EXCEPT ![old_row.team] = recalculate_team_stats(recs, old_row.team)]
    ELSE [tms EXCEPT ![new_row.team] = recalculate_team_stats(recs, new_row.team)]

\* INSERT INTO match_screenshots: the new table and the teams table after the trigger
DbInsert(id, row) ==
  LET recs == [records EXCEPT ![id] = row]
  IN /\ records' = recs
     /\ teams' = tg_recalculate_team_stats("INSERT", NoRow, row, recs, teams)
     /\ nextId' = id + 1

\* variant: the UPDATE runs with no row trigger on the table
DbUpdateNoTrigger(id, placement, kills, points) ==
  IF Exists(records, id)
    THEN /\ records' = [records EXCEPT ![id] =
                          [@ EXCEPT !.placement = placement, !.kills = kills,
                                    !.points = points]]
         /\ UNCHANGED teams
    ELSE UNCHANGED <<records, teams>>

\* variant: the UPDATE sets placement and kills and leaves points as stored
DbUpdateKeepPoints(id, placement, kills, points) ==
  IF Exists(records, id)
    THEN LET new == [records[id] EXCEPT !.placement = placement, !.kills = kills]
             recs == [records EXCEPT ![id] = new]
         IN /\ records' = recs
            /\ teams' = tg_recalculate_team_stats("UPDATE", records[id], new, recs, teams)
    ELSE UNCHANGED <<records, teams>>

\* UPDATE match_screenshots SET placement, kills, points WHERE id = ..
\* (no row matches a deleted id: nothing changes and no error is reported)
DbUpdate(id, placement, kills, points) ==
  IF Exists(records, id)
    THEN LET new == [records[id] EXCEPT !.placement = placement, !.kills = kills,
                                         !.points = points]
             recs == [records EXCEPT ![id] = new]
         IN /\ records' = recs
            /\ teams' = tg_recalculate_team_stats("UPDATE", records[id], new, recs, teams)
    ELSE UNCHANGED <<records, teams>>

\* variant: the row is deleted and the team row is left as it is
DbDeleteKeepTeam(id) ==
  /\ records' = [records EXCEPT ![id] = NoRow]
  /\ UNCHANGED teams

\* DELETE FROM match_screenshots WHERE id = ..
DbDelete(id) ==
  LET recs == [records EXCEPT ![id] = NoRow]
  IN /\ records' = recs
     /\ teams' = tg_recalculate_team_stats("DELETE", records[id], NoRow, recs, teams)

\* UPDATE teams SET <six columns> WHERE id = ..
DbUpdateTeam(team_id, stats) == teams' = [teams EXCEPT ![team_id] = stats]

(***************************************************************************)
(* analyze-screenshot: the extraction adapter.                             *)
(***************************************************************************)
\* analyzeWithRetry(imageUrl, maxRetries = 3)
maxRetries == 3

Err(msg, status) == [msg |-> msg, status |-> status]
NoError == Err("", 0)

Resp(status, body, placement, kills) ==
  [status |-> status, body |-> body, placement |-> placement, kills |-> kills]
NoResp == Resp(0, "none", NULL, NULL)

\* What one fetch of the AI gateway can produce: an error status with a text
\* body, a 2xx with a tool call, a 2xx without one, a 2xx whose arguments do
\* not parse, or no response at all (fetch rejects).
AIResponses ==
  {Resp(st, "text", NULL, NULL) : st \in AIStatuses \ {200}}
    \cup {Resp(200, "tool", r[1], r[2]) : r \in AIResults}
    \cup {Resp(200, "notool", NULL, NULL), Resp(200, "badjson", NULL, NULL),
          Resp(0, "neterr", NULL, NULL)}

\* index.ts 114: the statuses logged as temporary
IsTransient(status) == status = 429 \/ status = 402 \/ status >= 500

\* Response.ok
IsOk(status) == status >= 200 /\ status <= 299

\* index.ts 45-132: the body of the try block on one response:
\* it returns matchData, throws, or falls through with lastError assigned.
TryBody(resp) ==
  IF resp.body = "neterr"
    THEN [kind |-> "throw", error |-> Err("fetch failed", 0)]
  ELSE IF IsTransient(resp.status)
    THEN [kind |-> "fallthrough", error |-> Err("AI error", resp.status)]
  ELSE IF ~IsOk(resp.status)
    THEN [kind |-> "throw", error |-> Err("AI analysis failed", resp.status)]
  ELSE IF resp.body = "notool"
    THEN [kind |-> "throw", error |-> Err("No tool call in AI response", 0)]
  ELSE IF resp.body = "badjson"
    THEN [kind |-> "throw", error |-> Err("Unexpected token in JSON", 0)]
  ELSE [kind |-> "return", error |-> NoError]

\* variant: the first error of the invocation is kept
CatchErrorKeepFirst(lastError, e) == IF lastError = NoError THEN e ELSE lastError

\* index.ts 117 and 133-134: lastError after a failed attempt
\* (the catch block encloses every throw of the try block)
CatchError(lastError, e) == e

\* variant: the kills are left out of the points
EdgePointsNoKills(placement, kills) == EdgePlacementPoints(placement)

\* index.ts 151-157: points of the extracted result
EdgePoints(placement, kills) ==
  LET placementPoints == EdgePlacementPoints(placement)
      killPoints == kills
  IN placementPoints + killPoints

FnIdle ==
  [pc |-> "idle", body |-> "none", url |-> FALSE, sid |-> 0, tid |-> 0,
   attempt |-> 0, calls |-> 0, delay |-> 0,
   lastResp |-> NoResp, lastError |-> NoError,
   placement |-> NULL, kills |-> NULL, points |-> NULL, stats |-> ZeroStats,
   status |-> 0, error |-> NoError, recWrites |-> 0, teamWrites |-> 0]

FnResting == fn.pc = "idle"

\* index.ts 227-232: the outer catch answers 500 with the error's message
FnCatch(f, e) == [f EXCEPT !.pc = "done", !.status = 500, !.error = e,
                           !.stats = ZeroStats, !.attempt = 0, !.delay = 0,
                           !.lastError = NoError,
                           !.calls = IF f.pc = "backoff" THEN f.calls ELSE 0]

\* variant: the outer catch marks the record as analysed with zeros
ThrowZeroingRecord(e) ==
  /\ fn' = FnCatch(fn, e)
  /\ records' = [records EXCEPT ![fn.sid] =
                   IF @ = NoRow THEN @
                   ELSE [@ EXCEPT !.placement = 0, !.kills = 0, !.points = 0]]
  /\ UNCHANGED teams

\* variant: the total computed so far is stored before the error is answered
ThrowStoringTotal(e) ==
  /\ fn' = FnCatch(fn, e)
  /\ teams' = IF fn.pc = "team"
                THEN [teams EXCEPT ![fn.tid].total_points = fn.stats.total_points + 1]
                ELSE teams
  /\ UNCHANGED records

\* index.ts 144, 171, 182, 212 -> 227-232: an error thrown inside the handler
\* ends it in the outer catch; nothing is written on the way
Throw(e) ==
  /\ fn' = FnCatch(fn, e)
  /\ UNCHANGED <<records, teams>>

\* index.ts 9-38: a request for record sid arrives (the upload flows pass the
\* id and team of the row they have just inserted)
AnalyzeRequest(sid, tid) ==
  [FnIdle EXCEPT !.pc = "ai", !.body = "object", !.url = TRUE, !.sid = sid, !.tid = tid]

AnalyzeStart(sid) ==
  /\ FnResting
  /\ Exists(records, sid)
  /\ fn' = AnalyzeRequest(sid, records[sid].team)
  /\ UNCHANGED <<records, teams, nextId, adm, probe, up>>

\* request bodies the handler does not accept: a JSON object lacking
\* screenshot_url, screenshot_id or team_id, the JSON value null, and a body
\* that is not JSON (or is empty)
BadBodies ==
  {[body |-> "object", url |-> FALSE, sid |-> 1, tid |-> 1],
   [body |-> "object", url |-> TRUE, sid |-> 0, tid |-> 1],
   [body |-> "object", url |-> TRUE, sid |-> 1, tid |-> 0],
   [body |-> "object", url |-> FALSE, sid |-> 0, tid |-> 0],
   [body |-> "null", url |-> FALSE, sid |-> 0, tid |-> 0],
   [body |-> "invalid", url |-> FALSE, sid |-> 0, tid |-> 0]}

\* index.ts 14-31 and 227-232: req.json() rejects a body that is not JSON and
\* destructuring null throws, both inside the try block (500); an object
\* lacking a parameter is answered 400
AnalyzeReject(req) ==
  /\ FnResting
  /\ LET f == [FnIdle EXCEPT !.body = req.body, !.url = req.url, !.sid = req.sid,
                             !.tid = req.tid]
     IN CASE req.body = "invalid" ->
               fn' = FnCatch(f, Err("Unexpected end of JSON input", 0))
          [] req.body = "null" ->
               fn' = FnCatch(f, Err("Cannot destructure property of null", 0))
          [] OTHER ->
               /\ ~req.url \/ req.sid = 0 \/ req.tid = 0
               /\ fn' = [f EXCEPT !.pc = "done", !.status = 400,
                                  !.error = Err("Missing required parameters", 0)]
  /\ UNCHANGED <<records, teams, nextId, adm, probe, up>>

\* index.ts 44-139: one pass of the while loop up to the backoff
AIAttempt(resp) ==
  /\ fn.pc = "ai"
  /\ fn.attempt < maxRetries
  /\ LET r == TryBody(resp)
         f == [fn EXCEPT !.calls = @ + 1, !.lastResp = resp]
     IN IF r.kind = "return"
          THEN fn' = [f EXCEPT !.pc = "upd", !.placement = resp.placement,
                               !.kills = resp.kills,
                               !.points = EdgePoints(resp.placement, resp.kills),
                               !.attempt = 0, !.delay = 0, !.lastError = NoError]
          ELSE fn' = [f EXCEPT !.pc = "backoff",
                               !.lastError = CatchError(fn.lastError, r.error),
                               !.attempt = @ + 1,
                               !.delay = 500 * (fn.attempt + 1)]
  /\ UNCHANGED <<records, teams, nextId, adm, probe, up>>

\* variant: the loop condition is re-entered without the throw behind the loop
BackoffElapsedNoThrow ==
  /\ fn.pc = "backoff"
  /\ fn' = [fn EXCEPT !.pc = "ai"]
  /\ UNCHANGED <<records, teams, nextId, adm, probe, up>>

\* index.ts 141-144: the delay elapses; the loop continues or lastError is thrown
BackoffElapsed ==
  /\ fn.pc = "backoff"
  /\ IF fn.attempt < maxRetries
       THEN fn' = [fn EXCEPT !.pc = "ai"] /\ UNCHANGED <<records, teams>>
       ELSE Throw(IF fn.lastError = NoError
                    THEN Err("AI analysis failed after retries", 0)
                    ELSE fn.lastError)
  /\ UNCHANGED <<nextId, adm, probe, up>>

\* index.ts 159-172: update the screenshot record
FnUpdateRecord(updateError) ==
  /\ fn.pc = "upd"
  /\ IF updateError
       THEN Throw(Err("Failed to update screenshot data", 0))
       ELSE /\ DbUpdate(fn.sid, fn.placement, fn.kills, fn.points)
            /\ fn' = [fn EXCEPT !.pc = "sel",
                                !.recWrites = IF Exists(records, fn.sid) THEN @ + 1 ELSE @]
  /\ UNCHANGED <<nextId, adm, probe, up>>

\* index.ts 174-195: fetch all screenshots of the team and compute its stats
FnSelectTeam(fetchError) ==
  /\ fn.pc = "sel"
  /\ IF fetchError
       THEN Throw(Err("Failed to fetch team data", 0))
       ELSE /\ fn' = [fn EXCEPT !.pc = "team", !.stats = EdgeTeamStats(records, fn.tid),
                                !.calls = 0]
            /\ UNCHANGED <<records, teams>>
  /\ UNCHANGED <<nextId, adm, probe, up>>

\* index.ts 197-225: update the team stats and answer 200
FnUpdateTeam(teamUpdateError) ==
  /\ fn.pc = "team"
  /\ IF teamUpdateError
       THEN Throw(Err("Failed to update team stats", 0))
       ELSE /\ DbUpdateTeam(fn.tid, fn.stats)
            /\ fn' = [fn EXCEPT !.pc = "done", !.status = 200, !.teamWrites = @ + 1,
                                !.stats = ZeroStats]
            /\ UNCHANGED records
  /\ UNCHANGED <<nextId, adm, probe, up>>

\* the caller has received the response
FnReturn ==
  /\ fn.pc = "done"
  /\ fn' = FnIdle
  /\ UNCHANGED <<records, teams, nextId, adm, probe, up>>

(***************************************************************************)
(* ScreenshotVerification: the admin's edit and manual-entry handlers.     *)
(***************************************************************************)
AdmIdle == [op |-> "none", pc |-> "idle", tid |-> 0, stats |-> ZeroStats, toast |-> ""]

AdmResting == adm.pc = "idle"

AdmDone(a, toast) == [a EXCEPT !.pc = "done", !.toast = toast, !.stats = ZeroStats,
                               !.tid = 0]

\* matchDataSchema: placement int 1..18, kills int 0..50
matchDataSchema(placement, kills) ==
  placement >= 1 /\ placement <= 18 /\ kills >= 0 /\ kills <= 50

\* ScreenshotVerification.tsx 140-175: validate, then update the record;
\* `observed` is what an observer of the store notes when the update is made
handleUpdateScreenshotObserved(sid, editPlacement, editKills, screenshotError, observed) ==
  /\ AdmResting
  /\ Exists(records, sid)
  /\ LET a == [AdmIdle EXCEPT !.op = "edit", !.tid = records[sid].team]
     IN IF ~matchDataSchema(editPlacement, editKills)
          THEN /\ adm' = AdmDone(a, "invalid input")
               /\ UNCHANGED <<records, teams, probe>>
        ELSE IF screenshotError
          THEN /\ adm' = AdmDone(a, "Failed to update screenshot")
               /\ UNCHANGED <<records, teams, probe>>
        ELSE /\ DbUpdate(sid, editPlacement, editKills,
                         calculatePoints(editPlacement, editKills))
             /\ adm' = [a EXCEPT !.pc = "sel"]
             /\ probe' = observed
  /\ UNCHANGED <<nextId, fn, up>>

handleUpdateScreenshot(sid, editPlacement, editKills, screenshotError) ==
  handleUpdateScreenshotObserved(sid, editPlacement, editKills, screenshotError, probe)

\* ScreenshotVerification.tsx 222-269: validate, then insert a row without screenshot
handleManualEntry(manualTeamId, manualPlacement, manualKills, insertError) ==
  /\ AdmResting
  /\ nextId <= MaxRecords
  /\ LET a == [AdmIdle EXCEPT !.op = "manual", !.tid = manualTeamId]
     IN IF ~matchDataSchema(manualPlacement, manualKills)
          THEN /\ adm' = AdmDone(a, "invalid input")
               /\ UNCHANGED <<records, teams, nextId>>
        ELSE IF insertError
          THEN /\ adm' = AdmDone(a, "Failed to save manual entry")
               /\ UNCHANGED <<records, teams, nextId>>
        ELSE /\ DbInsert(nextId, Row(manualTeamId, manualPlacement, manualKills,
                                     calculatePoints(manualPlacement, manualKills)))
             /\ adm' = [a EXCEPT !.pc = "sel"]
  /\ UNCHANGED <<fn, probe, up>>

\* ScreenshotVerification.tsx 177-197 and 271-292: select the team's rows
AdmSelectTeam(teamError) ==
  /\ adm.pc = "sel"
  /\ IF teamError
       THEN adm' = AdmDone(adm, "Failed to recalculate team stats")
       ELSE adm' = [adm EXCEPT !.pc = "team", !.stats = ClientTeamStats(records, adm.tid)]
  /\ UNCHANGED <<records, teams, nextId, fn, probe, up>>

\* ScreenshotVerification.tsx 199-219 and 294-318: update the team row
AdmUpdateTeam(teamUpdateError) ==
  /\ adm.pc = "team"
  /\ IF teamUpdateError
       THEN /\ adm' = AdmDone(adm, "Failed to update team stats")
            /\ UNCHANGED teams
       ELSE /\ DbUpdateTeam(adm.tid, adm.stats)
            /\ adm' = AdmDone(adm, "success")
  /\ UNCHANGED <<records, nextId, fn, probe, up>>

\* the handler has returned and its toast is shown
AdmReturn ==
  /\ adm.pc = "done"
  /\ adm' = AdmIdle
  /\ UNCHANGED <<records, teams, nextId, fn, probe, up>>

\* ScreenshotVerification.tsx 326-348: delete a record
handleDeleteScreenshot(sid) ==
  /\ Exists(records, sid)
  /\ DbDelete(sid)
  /\ UNCHANGED <<nextId, fn, adm, probe, up>>

(***************************************************************************)
(* ManualPointsEntry and the upload flows: one insert each.                *)
(***************************************************************************)
\* ManualPointsEntry.tsx 36-43: calculatedPoints for the form's placement and kills
calculatedPoints(placement, kills) ==
  LET placementNum == JsOr(placement, 0)
      killsNum == JsOr(kills, 0)
      placementPts == ClientPlacementPoints(placementNum)
      killPts == killsNum * KILL_POINTS
  IN placementPts + killPts

\* ManualPointsEntry.tsx 59-98: validate, then insert
handleSubmit(selectedTeam, placementNum, killsNum) ==
  /\ nextId <= MaxRecords
  /\ ~(placementNum < 1 \/ placementNum > 18)
  /\ ~(killsNum < 0)
  /\ DbInsert(nextId, Row(selectedTeam, placementNum, killsNum,
                          calculatedPoints(placementNum, killsNum)))
  /\ UNCHANGED <<fn, adm, probe, up>>

\* PlayerDashboard.tsx 216-223, ScreenshotSubmission 192-199: insert the uploaded
\* screenshot's row; placement, kills and points stay NULL
handleFileUploadInsert(team_id) ==
  /\ nextId <= MaxRecords
  /\ DbInsert(nextId, Row(team_id, NULL, NULL, NULL))
  /\ UNCHANGED <<fn, adm, probe, up>>

(***************************************************************************)
(* handleFileUpload (PlayerDashboard, ScreenshotSubmission): the batch is  *)
(* cut to the allowed number of files and validated; then, file by file,   *)
(* storage upload, insert of the row, analyze-screenshot.                  *)
(***************************************************************************)
\* no upload in progress
UpIdle == [pc |-> "idle"]

\* "maximum of 12 screenshots" per team and "max 4 at a time"
SlotLimit == 12
BatchLimit == 4

\* a selected file is represented by the outcome of fileSchema.parse on it
Batches ==
  UNION {[1..n -> BOOLEAN] : n \in 1..MaxFiles}

Min(a, b) == IF a <= b THEN a ELSE b

UpDone(u, toast) == [pc |-> "done", toast |-> toast, stored |-> u.stored,
                     first |-> u.first, selectedBad |-> u.selectedBad,
                     n |-> u.n, uploadResults |-> u.uploadResults]

\* variant: only the analysed files are entered
PushAnalysedOnly(u, success) ==
  IF u.pc = "await"
    THEN [u EXCEPT !.uploadResults = Append(@, [success |-> success, index |-> u.i - 1])]
    ELSE u

\* uploadResults.push({ success, index: i })
Push(u, success) ==
  [u EXCEPT !.uploadResults = Append(@, [success |-> success, index |-> u.i - 1])]

\* the loop goes on with the next file, or the summary is shown
UpContinue(u) ==
  IF u.i < u.n
    THEN [u EXCEPT !.pc = "store", !.i = @ + 1, !.sid = 0]
    ELSE UpDone(u, "summary")

\* PlayerDashboard.tsx 151-189, ScreenshotSubmission 114-164: limits and validation
handleFileUpload(team, files) ==
  /\ up.pc = "idle"
  /\ LET remainingSlots == SlotLimit - Cardinality(TeamRows(records, team))
         maxFiles == Min(Min(Len(files), remainingSlots), BatchLimit)
         filesToUpload == SubSeq(files, 1, maxFiles)
         u == [pc |-> "store", team |-> team, n |-> maxFiles, i |-> 1, sid |-> 0,
               stored |-> 0, first |-> nextId, uploadResults |-> <<>>,
               selectedBad |-> \E k \in 1..Len(files) : ~files[k]]
     IN IF remainingSlots <= 0
          THEN up' = UpDone(u, "maximum reached")
        ELSE IF \E k \in 1..maxFiles : ~filesToUpload[k]
          THEN up' = UpDone(u, "invalid file")
        ELSE up' = u
  /\ UNCHANGED <<records, teams, nextId, fn, adm, probe>>

\* PlayerDashboard.tsx 198-206: upload the file to storage
UpStore(uploadError) ==
  /\ up.pc = "store"
  /\ IF uploadError
       THEN up' = UpContinue(Push(up, FALSE))
       ELSE up' = [up EXCEPT !.pc = "insert", !.stored = @ + 1]
  /\ UNCHANGED <<records, teams, nextId, fn, adm, probe>>

\* PlayerDashboard.tsx 214-229: insert the row and read back its id
UpInsert(insertError) ==
  /\ up.pc = "insert"
  /\ IF insertError
       THEN /\ up' = UpContinue(Push(up, FALSE))
            /\ UNCHANGED <<records, teams, nextId>>
       ELSE /\ nextId <= MaxRecords
            /\ DbInsert(nextId, Row(up.team, NULL, NULL, NULL))
            /\ up' = [up EXCEPT !.pc = "invoke", !.sid = nextId]
  /\ UNCHANGED <<fn, adm, probe>>

\* variant: the invocation is started and not awaited
UpInvokeNoAwait(invokeError) ==
  /\ up.pc = "invoke"
  /\ FnResting
  /\ fn' = IF invokeError THEN fn ELSE AnalyzeRequest(up.sid, up.team)
  /\ up' = UpContinue(Push(up, ~invokeError))
  /\ UNCHANGED <<records, teams, nextId, adm, probe>>

\* PlayerDashboard.tsx 233-241: supabase.functions.invoke("analyze-screenshot")
\* with the url, the id of the inserted row and the team; the call may fail
\* before the function runs
UpInvoke(invokeError) ==
  /\ up.pc = "invoke"
  /\ FnResting
  /\ IF invokeError
       THEN up' = UpContinue(Push(up, FALSE)) /\ UNCHANGED fn
       ELSE /\ fn' = AnalyzeRequest(up.sid, up.team)
            /\ up' = [up EXCEPT !.pc = "await"]
  /\ UNCHANGED <<records, teams, nextId, adm, probe>>

\* variant: a row whose analysis failed is deleted again
UpAnalysisResultCleanup ==
  /\ up.pc = "await"
  /\ fn.pc = "done"
  /\ fn' = FnIdle
  /\ up' = UpContinue(Push(up, fn.status = 200))
  /\ IF fn.status # 200 /\ Exists(records, up.sid)
       THEN DbDelete(up.sid)
       ELSE UNCHANGED <<records, teams>>
  /\ UNCHANGED <<nextId, adm, probe>>

\* PlayerDashboard.tsx 243-254: the response arrives; success or failure is
\* noted for the summary and the loop goes on
UpAnalysisResult ==
  /\ up.pc = "await"
  /\ fn.pc = "done"
  /\ fn' = FnIdle
  /\ up' = UpContinue(Push(up, fn.status = 200))
  /\ UNCHANGED <<records, teams, nextId, adm, probe>>

\* PlayerDashboard.tsx 257-272: summary toasts, the handler returns
UpReturn ==
  /\ up.pc = "done"
  /\ up' = UpIdle
  /\ UNCHANGED <<records, teams, nextId, fn, adm, probe>>

(***************************************************************************)
(* Specifications.                                                         *)
(***************************************************************************)
NoProbe == [placement |-> NULL, edge |-> 0, sql |-> 0, client |-> 0]

Init ==
  /\ records = [i \in RecIds |-> NoRow]
  /\ teams = [t \in Teams |-> ZeroStats]
  /\ nextId = 1
  /\ fn = FnIdle
  /\ adm = AdmIdle
  /\ probe = NoProbe
  /\ up = UpIdle

FnStep ==
  \/ \E resp \in AIResponses : AIAttempt(resp)
  \/ BackoffElapsed
  \/ \E e \in BOOLEAN : FnUpdateRecord(e)
  \/ \E e \in BOOLEAN : FnSelectTeam(e)
  \/ \E e \in BOOLEAN : FnUpdateTeam(e)
  \/ FnReturn

AdmStep ==
  \/ \E e \in BOOLEAN : AdmSelectTeam(e)
  \/ \E e \in BOOLEAN : AdmUpdateTeam(e)
  \/ AdmReturn

Begin ==
  \/ \E sid \in RecIds : AnalyzeStart(sid)
  \/ \E req \in BadBodies : AnalyzeReject(req)
  \/ \E sid \in RecIds, inp \in FormInputs, e \in BOOLEAN :
       handleUpdateScreenshot(sid, inp[1], inp[2], e)
  \/ \E t \in Teams, inp \in FormInputs, e \in BOOLEAN :
       handleManualEntry(t, inp[1], inp[2], e)
  \/ \E sid \in RecIds : handleDeleteScreenshot(sid)
  \/ \E t \in Teams, inp \in EntryInputs : handleSubmit(t, inp[1], inp[2])
  \/ \E t \in Teams : handleFileUploadInsert(t)

\* Requests of players and admins arrive at any time.
Next == Begin \/ FnStep \/ AdmStep

Spec == Init /\ [][Next]_vars

\* One request at a time: a request begins only when none is in flight.
NextSeq == (FnResting /\ AdmResting /\ Begin) \/ FnStep \/ AdmStep

SpecSeq == Init /\ [][NextSeq]_vars

\* Evaluation of the placement-to-points implementations on one input.
Probe(p) ==
  /\ probe' = [placement |-> p, edge |-> EdgePlacementPoints(p),
               sql |-> calculate_placement_points(p),
               client |-> ClientPlacementPoints(p)]
  /\ UNCHANGED <<records, teams, nextId, fn, adm, up>>

NextPP == \E p \in (-PPSpan..PPSpan) \cup {NULL} : Probe(p)

SpecPP == Init /\ [][NextPP]_vars

\* Team recomputation on its own: any record set the handlers can leave
\* behind, any previously stored aggregates, and the three recompute paths
\* applied in any order.
AggInputs == {<<1, 3, 13>>, <<2, 1, 7>>, <<9, 0, 0>>, <<NULL, NULL, NULL>>}

AggRows == {NoRow} \cup {Row(t, r[1], r[2], r[3]) : t \in Teams, r \in AggInputs}

PriorStats == {ZeroStats, Stats(20, 16, 4, 4, 2, 1)}

InitAgg ==
  /\ records \in [RecIds -> AggRows]
  /\ teams \in [Teams -> PriorStats]
  /\ nextId = MaxRecords + 1
  /\ fn = FnIdle
  /\ adm = AdmIdle
  /\ probe = NoProbe
  /\ up = UpIdle

\* one run of a recompute path for team t: what it writes, what was stored
\* before, and how many runs for t have followed each other
Recompute(path, t, stats) ==
  /\ DbUpdateTeam(t, stats)
  /\ probe' = [path |-> path, team |-> t, before |-> teams[t],
               runs |-> IF probe # NoProbe /\ probe.team = t /\ probe.runs < 2
                          THEN probe.runs + 1 ELSE 1]
  /\ UNCHANGED <<records, nextId, fn, adm, up>>

SqlRecompute(t) == Recompute("sql", t, recalculate_team_stats(records, t))

EdgeRecompute(t) == Recompute("edge", t, EdgeTeamStats(records, t))

ClientRecompute(t) == Recompute("client", t, ClientTeamStats(records, t))

NextAgg ==
  \E t \in Teams : SqlRecompute(t) \/ EdgeRecompute(t) \/ ClientRecompute(t)

SpecAgg == InitAgg /\ [][NextAgg]_vars

\* A player's upload handler together with the analyze-screenshot function it
\* calls; other callers may send the function requests it rejects.
NextUp ==
  \/ \E t \in Teams, files \in Batches : handleFileUpload(t, files)
  \/ \E e \in BOOLEAN : UpStore(e)
  \/ \E e \in BOOLEAN : UpInsert(e)
  \/ \E e \in BOOLEAN : UpInvoke(e)
  \/ UpAnalysisResult
  \/ UpReturn
  \/ \E req \in BadBodies : AnalyzeReject(req)
  \/ (up.pc # "await" /\ FnReturn)
  \/ \E resp \in AIResponses : AIAttempt(resp)
  \/ BackoffElapsed
  \/ \E e \in BOOLEAN : FnUpdateRecord(e)
  \/ \E e \in BOOLEAN : FnSelectTeam(e)
  \/ \E e \in BOOLEAN : FnUpdateTeam(e)

SpecUp == Init /\ [][NextUp]_vars

(***************************************************************************)
(* Row-level security: who can write match_screenshots and teams through   *)
(* the API, and through analyze-screenshot with its service-role client.   *)
(***************************************************************************)
\* the anonymous key, a signed-in player per team and a signed-in admin
anon == [role |-> "anon", uid |-> NULL]

AdminUid == NumTeams + 1

Principals == {anon} \cup {[role |-> "authenticated", uid |-> u] : u \in 1..AdminUid}

\* sessions: player u is bound to team u
sessions == {[user_id |-> u, team_id |-> u] : u \in Teams}

user_roles == {[user_id |-> AdminUid, role |-> "admin"]}
                \cup {[user_id |-> u, role |-> "player"] : u \in Teams}

has_role(_user_id, _role) ==
  \E r \in user_roles : r.user_id = _user_id /\ r.role = _role

\* a policy applies to the roles after TO (to every role when TO is absent)
OwnTeamSession(p, team_id) ==
  \E s \in sessions : s.user_id = p.uid /\ s.team_id = team_id

\* "Public can insert match screenshots": TO anon, authenticated WITH CHECK (true)
PublicCanInsert(p) == p.role \in {"anon", "authenticated"}

\* INSERT policies of match_screenshots, permissive: any one of them admits
InsertPolicy(p, team_id) ==
  \/ p.role = "authenticated" /\ OwnTeamSession(p, team_id)
  \/ has_role(p.uid, "admin")
  \/ PublicCanInsert(p)

\* "Admins can update match screenshots"
UpdatePolicy(p) == p.role = "authenticated" /\ has_role(p.uid, "admin")

\* "Admins can delete match screenshots", "Players can delete screenshots
\* for their own team"
DeletePolicy(p, team_id) ==
  \/ p.role = "authenticated" /\ has_role(p.uid, "admin")
  \/ OwnTeamSession(p, team_id)

\* "Only admins can update teams"
TeamUpdatePolicy(p) == p.role = "authenticated" /\ has_role(p.uid, "admin")

\* the last API call: who made it and the teams whose rows it wrote
Audit(op, p, ts) == [op |-> op, by |-> p, teams |-> ts]

\* rows a client can send in an INSERT
ApiRows == {<<NULL, NULL, NULL>>, <<1, 4, 14>>}

ApiInsert(p, team_id, r) ==
  /\ nextId <= MaxRecords
  /\ IF InsertPolicy(p, team_id)
       THEN /\ DbInsert(nextId, Row(team_id, r[1], r[2], r[3]))
            /\ probe' = Audit("insert", p, {team_id})
       ELSE /\ UNCHANGED <<records, teams, nextId>>
            /\ probe' = Audit("denied", p, {})
  /\ UNCHANGED <<fn, adm, up>>

\* rows the USING clause hides are not updated, and no error is raised
ApiUpdate(p, id, r) ==
  /\ Exists(records, id)
  /\ IF UpdatePolicy(p)
       THEN /\ DbUpdate(id, r[1], r[2], r[3])
            /\ probe' = Audit("update", p, {records[id].team})
       ELSE /\ UNCHANGED <<records, teams>>
            /\ probe' = Audit("denied", p, {})
  /\ UNCHANGED <<nextId, fn, adm, up>>

ApiDelete(p, id) ==
  /\ Exists(records, id)
  /\ IF DeletePolicy(p, records[id].team)
       THEN /\ DbDelete(id)
            /\ probe' = Audit("delete", p, {records[id].team})
       ELSE /\ UNCHANGED <<records, teams>>
            /\ probe' = Audit("denied", p, {})
  /\ UNCHANGED <<nextId, fn, adm, up>>

ApiUpdateTeam(p, team_id, stats) ==
  /\ IF TeamUpdatePolicy(p)
       THEN /\ DbUpdateTeam(team_id, stats)
            /\ probe' = Audit("team", p, {team_id})
       ELSE /\ UNCHANGED teams
            /\ probe' = Audit("denied", p, {})
  /\ UNCHANGED <<records, nextId, fn, adm, up>>

\* index.ts 14-31, 159-213: the function reads no credential of its caller and
\* writes with the service-role key, which row-level security does not bind;
\* a completed invocation updates the record and then the team it was given
ApiAnalyze(p, screenshot_id, team_id, ai) ==
  /\ LET points == EdgePoints(ai[1], ai[2])
         new == [records[screenshot_id] EXCEPT !.placement = ai[1], !.kills = ai[2],
                                                !.points = points]
         recs == IF Exists(records, screenshot_id)
                   THEN [records EXCEPT ![screenshot_id] = new] ELSE records
         tms == IF Exists(records, screenshot_id)
                  THEN tg_recalculate_team_stats("UPDATE", records[screenshot_id],
                                                 new, recs, teams)
                  ELSE teams
     IN /\ records' = recs
        /\ teams' = [tms EXCEPT ![team_id] = EdgeTeamStats(recs, team_id)]
        /\ probe' = Audit("analyze", p,
                          {team_id} \cup IF Exists(records, screenshot_id)
                                           THEN {records[screenshot_id].team} ELSE {})
  /\ UNCHANGED <<nextId, fn, adm, up>>

NextAuth ==
  \/ \E p \in Principals, t \in Teams, r \in ApiRows : ApiInsert(p, t, r)
  \/ \E p \in Principals, id \in RecIds, r \in ApiRows : ApiUpdate(p, id, r)
  \/ \E p \in Principals, id \in RecIds : ApiDelete(p, id)
  \/ \E p \in Principals, t \in Teams : ApiUpdateTeam(p, t, ZeroStats)
  \/ \E p \in Principals, id \in RecIds, t \in Teams : ApiAnalyze(p, id, t, <<1, 4>>)

SpecAuth == Init /\ [][NextAuth]_vars

(***************************************************************************)
(* Standings: the order of the leaderboard.                                *)
(***************************************************************************)
Team(id, totalPoints, totalKills) ==
  [id |-> id, totalPoints |-> totalPoints, totalKills |-> totalKills]

\* variant: the comparator looks at the points only
compareTeamsPointsOnly(a, b) == b.totalPoints - a.totalPoints

\* Standings.tsx 17-22: the comparator passed to sort
compareTeams(a, b) ==
  IF b.totalPoints # a.totalPoints
    THEN b.totalPoints - a.totalPoints
    ELSE b.totalKills - a.totalKills

\* part_004 10-15
compareTeamsColumns(a, b) ==
  IF b.totalPoints # a.totalPoints
    THEN b.totalPoints - a.totalPoints
    ELSE b.totalKills - a.totalKills

\* part_005 24-29
compareTeamsAdmin(a, b) ==
  IF b.totalPoints # a.totalPoints
    THEN b.totalPoints - a.totalPoints
    ELSE b.totalKills - a.totalKills

\* part_005 401-406
compareTeamsPodium(a, b) ==
  IF b.totalPoints # a.totalPoints
    THEN b.totalPoints - a.totalPoints
    ELSE b.totalKills - a.totalKills

\* Array.prototype.sort: stable; element i goes behind the elements the
\* comparator puts before it and behind the equal ones that precede it
ArraySort(arr, cmp) ==
  LET n == Len(arr)
      rank(i) == 1 + Cardinality({j \in 1..n :
                       \/ cmp[arr[j], arr[i]] < 0
                       \/ cmp[arr[j], arr[i]] = 0 /\ j < i})
  IN [k \in 1..n |-> arr[CHOOSE i \in 1..n : rank(i) = k]]

\* [...teams].sort(cmp): the copy is sorted, the prop is left as it was
sortedTeams(teamsProp, cmp) ==
  LET copy == teamsProp
  IN [teams |-> teamsProp, sortedTeams |-> ArraySort(copy, cmp)]

\* the leaderboards that can be passed to Standings
PointValues == {20, 25}
KillValues == {0, 10, 15}
Leaderboards ==
  {<<>>} \cup
  {<<Team(1, p[1], k[1]), Team(2, p[2], k[2]), Team(3, p[3], k[3])>> :
     p \in [1..3 -> PointValues], k \in [1..3 -> KillValues]}

NoRender == [teams |-> <<>>, rendered |-> FALSE]

InitSort ==
  /\ records = [i \in RecIds |-> NoRow]
  /\ teams = [t \in Teams |-> ZeroStats]
  /\ nextId = 1
  /\ fn = FnIdle
  /\ adm = AdmIdle
  /\ probe \in {[NoRender EXCEPT !.teams = l] : l \in Leaderboards}
  /\ up = UpIdle

\* the elements of the array, the domain of the comparators passed to sort
Elems(arr) == {arr[i] : i \in 1..Len(arr)}

\* the four Standings components render the same prop
Render ==
  /\ ~probe.rendered
  /\ LET E == Elems(probe.teams)
         s == sortedTeams(probe.teams, [a, b \in E |-> compareTeams(a, b)])
     IN probe' = [teams |-> s.teams, rendered |-> TRUE, input |-> probe.teams,
                  standings |-> s.sortedTeams,
                  columns |-> sortedTeams(probe.teams,
                                [a, b \in E |-> compareTeamsColumns(a, b)]).sortedTeams,
                  admin |-> sortedTeams(probe.teams,
                                [a, b \in E |-> compareTeamsAdmin(a, b)]).sortedTeams,
                  podium |-> sortedTeams(probe.teams,
                                [a, b \in E |-> compareTeamsPodium(a, b)]).sortedTeams]
  /\ UNCHANGED <<records, teams, nextId, fn, adm, up>>

NextSort == Render

SpecSort == InitSort /\ [][NextSort]_vars

\* One request at a time, where every HTTP call and store call of the
\* function in flight returns: a step of the function that can be taken is
\* eventually taken.
SpecLive == Init /\ [][NextSeq]_vars /\ WF_vars(FnStep)

(***************************************************************************)
(* Standings (admin): reset of a team's points.                            *)
(***************************************************************************)
\* the team the admin reset last
LastReset(teamId) == [reset |-> teamId]

\* variant: the update has no filter on the team id
handleResetTeamNoFilter(teamId, confirmed, error) ==
  /\ AdmResting
  /\ confirmed /\ ~error
  /\ teams' = [t \in Teams |-> ZeroStats]
  /\ adm' = AdmDone([AdmIdle EXCEPT !.op = "reset", !.tid = teamId],
                    "points have been reset")
  /\ probe' = LastReset(teamId)
  /\ UNCHANGED <<records, nextId, fn, up>>

\* variant: the three points columns are set to 0, the counts are kept
handleResetTeamPointsOnly(teamId, confirmed, error) ==
  /\ AdmResting
  /\ confirmed /\ ~error
  /\ teams' = [teams EXCEPT ![teamId].total_points = 0,
                            ![teamId].placement_points = 0,
                            ![teamId].kill_points = 0]
  /\ adm' = AdmDone([AdmIdle EXCEPT !.op = "reset", !.tid = teamId],
                    "points have been reset")
  /\ probe' = LastReset(teamId)
  /\ UNCHANGED <<records, nextId, fn, up>>

\* part_005 31-61: confirm, then UPDATE teams SET the six columns to 0
handleResetTeam(teamId, confirmed, error) ==
  /\ AdmResting
  /\ LET a == [AdmIdle EXCEPT !.op = "reset", !.tid = teamId]
     IN IF ~confirmed
          THEN UNCHANGED <<teams, adm, probe>>
        ELSE IF error
          THEN /\ adm' = AdmDone(a, "Failed to reset team points")
               /\ UNCHANGED <<teams, probe>>
        ELSE /\ DbUpdateTeam(teamId, ZeroStats)
             /\ adm' = AdmDone(a, "points have been reset")
             /\ probe' = LastReset(teamId)
  /\ UNCHANGED <<records, nextId, fn, up>>

\* One request at a time, the admin's reset among them.
NextReset ==
  \/ NextSeq
  \/ FnResting /\ \E t \in Teams, c, e \in BOOLEAN : handleResetTeam(t, c, e)

SpecReset == Init /\ [][NextReset]_vars

(***************************************************************************)
(* PlayerDashboard, the version that numbers the matches: the rows carry   *)
(* match_number, the handler starts at the number typed into the form.     *)
(***************************************************************************)
TotalMatches == 2

MatchRow(t, mn) ==
  [team |-> t, placement |-> NULL, kills |-> NULL, points |-> NULL, match_number |-> mn]

\* rows of the team with the match number
MatchRows(recs, t, mn) ==
  {i \in TeamRows(recs, t) : recs[i].match_number = mn}

\* the loop goes on with the next file and the next match number
MContinue(u) ==
  IF u.i < u.n
    THEN [u EXCEPT !.pc = "limit", !.i = @ + 1, !.sid = 0,
                   !.currentMatchNum = @ + 1]
    ELSE UpDone(u, "summary")

\* uploadResults.push({ success, matchNum: currentMatchNum })
MPush(u, success) ==
  [u EXCEPT !.uploadResults = Append(@, [success |-> success, index |-> u.i - 1])]

\* PlayerDashboard.tsx 571-600: the first four files, each validated
handleFileUploadMatch(team, files, matchNumber) ==
  /\ up.pc = "idle"
  /\ LET maxFiles == Min(Len(files), BatchLimit)
         filesToUpload == SubSeq(files, 1, maxFiles)
         u == [pc |-> "limit", team |-> team, n |-> maxFiles, i |-> 1, sid |-> 0,
               stored |-> 0, first |-> nextId, uploadResults |-> <<>>,
               selectedBad |-> \E k \in 1..Len(files) : ~files[k],
               currentMatchNum |-> matchNumber]
     IN IF \E k \in 1..maxFiles : ~filesToUpload[k]
          THEN up' = UpDone(u, "invalid file")
          ELSE up' = u
  /\ UNCHANGED <<records, teams, nextId, fn, adm, probe>>

\* 611-614: a match number beyond the tournament's matches ends the loop
MLimit ==
  /\ up.pc = "limit"
  /\ IF up.currentMatchNum > TotalMatches
       THEN up' = UpDone(up, "summary")
       ELSE up' = [up EXCEPT !.pc = "existing"]
  /\ UNCHANGED <<records, teams, nextId, fn, adm, probe>>

\* 616-628: a match already uploaded is skipped (a failed select finds none)
MExisting(selectError) ==
  /\ up.pc = "existing"
  /\ IF ~selectError /\ MatchRows(records, up.team, up.currentMatchNum) # {}
       THEN up' = MContinue(up)
       ELSE up' = [up EXCEPT !.pc = "store"]
  /\ UNCHANGED <<records, teams, nextId, fn, adm, probe>>

\* 633-642: upload the file to storage
MStore(uploadError) ==
  /\ up.pc = "store"
  /\ IF uploadError
       THEN up' = MContinue(MPush(up, FALSE))
       ELSE up' = [up EXCEPT !.pc = "insert", !.stored = @ + 1]
  /\ UNCHANGED <<records, teams, nextId, fn, adm, probe>>

\* 650-661: insert the row with its match number; UNIQUE (team_id,
\* match_number) rejects a number the team already has
MInsert(insertError) ==
  /\ up.pc = "insert"
  /\ IF insertError \/ MatchRows(records, up.team, up.currentMatchNum) # {}
       THEN /\ up' = MContinue(MPush(up, FALSE))
            /\ UNCHANGED <<records, teams, nextId>>
       ELSE /\ nextId <= MaxRecords
            /\ DbInsert(nextId, MatchRow(up.team, up.currentMatchNum))
            /\ up' = [up EXCEPT !.pc = "select"]
  /\ UNCHANGED <<fn, adm, probe>>

\* 664-671: read back the id of the row by team and match number
MSelect(selectError) ==
  /\ up.pc = "select"
  /\ LET found == MatchRows(records, up.team, up.currentMatchNum)
     IN IF selectError \/ found = {}
          THEN up' = MContinue(up)
          ELSE up' = [up EXCEPT !.pc = "invoke", !.sid = CHOOSE id \in found : TRUE]
  /\ UNCHANGED <<records, teams, nextId, fn, adm, probe>>

\* 676-683: supabase.functions.invoke("analyze-screenshot")
MInvoke(invokeError) ==
  /\ up.pc = "invoke"
  /\ FnResting
  /\ IF invokeError
       THEN up' = MContinue(MPush(up, FALSE)) /\ UNCHANGED fn
       ELSE /\ fn' = AnalyzeRequest(up.sid, up.team)
            /\ up' = [up EXCEPT !.pc = "await"]
  /\ UNCHANGED <<records, teams, nextId, adm, probe>>

\* 685-695: the response arrives and is entered in uploadResults
MAnalysisResult ==
  /\ up.pc = "await"
  /\ fn.pc = "done"
  /\ fn' = FnIdle
  /\ up' = MContinue(MPush(up, fn.status = 200))
  /\ UNCHANGED <<records, teams, nextId, adm, probe>>

\* The match-number upload handler with the function it calls.
NextUpMatch ==
  \/ \E t \in Teams, files \in Batches, mn \in 1..TotalMatches :
       handleFileUploadMatch(t, files, mn)
  \/ MLimit
  \/ \E e \in BOOLEAN : MExisting(e)
  \/ \E e \in BOOLEAN : MStore(e)
  \/ \E e \in BOOLEAN : MInsert(e)
  \/ \E e \in BOOLEAN : MSelect(e)
  \/ \E e \in BOOLEAN : MInvoke(e)
  \/ MAnalysisResult
  \/ UpReturn
  \/ \E resp \in AIResponses : AIAttempt(resp)
  \/ BackoffElapsed
  \/ \E e \in BOOLEAN : FnUpdateRecord(e)
  \/ \E e \in BOOLEAN : FnSelectTeam(e)
  \/ \E e \in BOOLEAN : FnUpdateTeam(e)

SpecUpMatch == Init /\ [][NextUpMatch]_vars

(***************************************************************************)
(* Scoring over two stores that differ in the match numbers only: the      *)
(* second store is kept in probe and receives the same operations.         *)
(***************************************************************************)
MatchNumbers == {NULL, 1, 2}

TwinInputs == {<<1, 4, 14>>, <<NULL, NULL, NULL>>}

WithMatchNumber(row, mn) ==
  [team |-> row.team, placement |-> row.placement, kills |-> row.kills,
   points |-> row.points, match_number |-> mn]

\* the scoring columns of a row
Scoring(row) == Row(row.team, row.placement, row.kills, row.points)

TwinRows ==
  {NoRow} \cup {WithMatchNumber(Row(t, r[1], r[2], r[3]), mn) :
                  t \in Teams, r \in TwinInputs, mn \in MatchNumbers}

Twin(recs, tms, applied) == [records |-> recs, teams |-> tms, applied |-> applied]

InitTwin ==
  /\ records \in [RecIds -> TwinRows]
  /\ teams = [t \in Teams |-> recalculate_team_stats(records, t)]
  /\ nextId = 1
  /\ fn = FnIdle
  /\ adm = AdmIdle
  /\ up = UpIdle
  /\ \E numbering \in [RecIds -> MatchNumbers] :
       LET recs2 == [i \in RecIds |->
                       IF records[i] = NoRow THEN NoRow
                       ELSE WithMatchNumber(records[i], numbering[i])]
       IN probe = Twin(recs2, [t \in Teams |-> recalculate_team_stats(recs2, t)], FALSE)

\* INSERT of the same upload with a match number of its own in each store
TwinInsert(id, t, mn, mn2) ==
  /\ records[id] = NoRow
  /\ LET row == MatchRow(t, mn)
         row2 == MatchRow(t, mn2)
         recs == [records EXCEPT ![id] = row]
         recs2 == [probe.records EXCEPT ![id] = row2]
     IN /\ records' = recs
        /\ teams' = tg_recalculate_team_stats("INSERT", NoRow, row, recs, teams)
        /\ probe' = Twin(recs2,
                         tg_recalculate_team_stats("INSERT", NoRow, row2, recs2, probe.teams),
                         TRUE)
  /\ UNCHANGED <<nextId, fn, adm, up>>

\* index.ts 151-172: the extracted result is written to the row in each store
TwinAnalyze(id, ai) ==
  /\ records[id] # NoRow
  /\ LET points == EdgePoints(ai[1], ai[2])
         new == [records[id] EXCEPT !.placement = ai[1], !.kills = ai[2],
                                    !.points = points]
         new2 == [probe.records[id] EXCEPT !.placement = ai[1], !.kills = ai[2],
                                           !.points = points]
         recs == [records EXCEPT ![id] = new]
         recs2 == [probe.records EXCEPT ![id] = new2]
     IN /\ records' = recs
        /\ teams' = tg_recalculate_team_stats("UPDATE", records[id], new, recs, teams)
        /\ probe' = Twin(recs2,
                         tg_recalculate_team_stats("UPDATE", probe.records[id], new2,
                                                   recs2, probe.teams),
                         TRUE)
  /\ UNCHANGED <<nextId, fn, adm, up>>

TwinDelete(id) ==
  /\ records[id] # NoRow
  /\ LET recs == [records EXCEPT ![id] = NoRow]
         recs2 == [probe.records EXCEPT ![id] = NoRow]
     IN /\ records' = recs
        /\ teams' = tg_recalculate_team_stats("DELETE", records[id], NoRow, recs, teams)
        /\ probe' = Twin(recs2,
                         tg_recalculate_team_stats("DELETE", probe.records[id], NoRow,
                                                   recs2, probe.teams),
                         TRUE)
  /\ UNCHANGED <<nextId, fn, adm, up>>

\* index.ts 185-213: the function's recompute of a team in each store
TwinEdgeRecompute(t) ==
  /\ teams' = [teams EXCEPT ![t] = EdgeTeamStats(records, t)]
  /\ probe' = Twin(probe.records,
                   [probe.teams EXCEPT ![t] = EdgeTeamStats(probe.records, t)], TRUE)
  /\ UNCHANGED <<records, nextId, fn, adm, up>>

\* ScreenshotVerification.tsx 177-209: the admin handler's recompute
TwinClientRecompute(t) ==
  /\ teams' = [teams EXCEPT ![t] = ClientTeamStats(records, t)]
  /\ probe' = Twin(probe.records,
                   [probe.teams EXCEPT ![t] = ClientTeamStats(probe.records, t)], TRUE)
  /\ UNCHANGED <<records, nextId, fn, adm, up>>

NextTwin ==
  \/ \E id \in RecIds, t \in Teams, mn, mn2 \in MatchNumbers : TwinInsert(id, t, mn, mn2)
  \/ \E id \in RecIds, ai \in AIResults : TwinAnalyze(id, ai)
  \/ \E id \in RecIds : TwinDelete(id)
  \/ \E t \in Teams : TwinEdgeRecompute(t)
  \/ \E t \in Teams : TwinClientRecompute(t)

SpecTwin == InitTwin /\ [][NextTwin]_vars

(***************************************************************************)
(* match_number: the BEFORE INSERT triggers that assign it, the UNIQUE     *)
(* (team_id, match_number) constraint, and uploads inserting at once.      *)
(***************************************************************************)
Clients == 1..2

\* match_number as the INSERT gives it: absent, 0, or a number
GivenNumbers == {NULL, 0, 1, 2}

Max(S) == CHOOSE x \in S : \A y \in S : y <= x

\* variant: the maximum is taken over the rows of all teams
auto_assign_any_team(recs, team_id, match_number) ==
  IF match_number = NULL \/ match_number = 0
    THEN LET nums == {recs[i].match_number : i \in {j \in RecIds : recs[j] # NoRow}}
                       \ {NULL}
         IN COALESCE(IF nums = {} THEN NULL ELSE Max(nums), 0) + 1
    ELSE match_number

\* auto_assign_match_number(): NEW.match_number after the trigger
auto_assign_match_number(recs, team_id, match_number) ==
  IF match_number = NULL \/ match_number = 0
    THEN LET nums == {recs[i].match_number : i \in TeamRows(recs, team_id)} \ {NULL}
         IN COALESCE(IF nums = {} THEN NULL ELSE Max(nums), 0) + 1
    ELSE match_number

\* BEFORE INSERT FOR EACH ROW: set_match_number, then
\* set_match_number_before_insert, both executing the function
BeforeInsert(recs, team_id, match_number) ==
  auto_assign_match_number(recs, team_id,
                           auto_assign_match_number(recs, team_id, match_number))

InsIdle == [pc |-> "idle", team |-> 0, given |-> NULL, match_number |-> NULL, id |-> 0]

InitMatch ==
  /\ records = [i \in RecIds |-> NoRow]
  /\ teams = [t \in Teams |-> ZeroStats]
  /\ nextId = 1
  /\ fn = FnIdle
  /\ adm = AdmIdle
  /\ up = UpIdle
  /\ probe = [c \in Clients |-> InsIdle]

\* an INSERT of client c arrives: the BEFORE INSERT triggers read the rows
\* committed so far
InsertTrigger(c, team_id, given) ==
  /\ probe[c].pc = "idle"
  /\ probe' = [probe EXCEPT ![c] =
                 [pc |-> "assigned", team |-> team_id, given |-> given,
                  match_number |-> BeforeInsert(records, team_id, given), id |-> 0]]
  /\ UNCHANGED <<records, teams, nextId, fn, adm, up>>

\* the row is written: UNIQUE (team_id, match_number) raises 23505 when the
\* team has the number by now; part_006 192-205: the handler reports the
\* failed save and goes on to the next file
InsertWrite(c) ==
  /\ probe[c].pc = "assigned"
  /\ IF MatchRows(records, probe[c].team, probe[c].match_number) # {}
       THEN /\ probe' = [probe EXCEPT ![c].pc = "failed"]
            /\ UNCHANGED <<records, teams, nextId>>
       ELSE /\ nextId <= MaxRecords
            /\ DbInsert(nextId, MatchRow(probe[c].team, probe[c].match_number))
            /\ probe' = [probe EXCEPT ![c].pc = "stored", ![c].id = nextId]
  /\ UNCHANGED <<fn, adm, up>>

InsertReturn(c) ==
  /\ probe[c].pc \in {"stored", "failed"}
  /\ probe' = [probe EXCEPT ![c] = InsIdle]
  /\ UNCHANGED <<records, teams, nextId, fn, adm, up>>

\* an admin deletes a row
MatchDelete(id) ==
  /\ Exists(records, id)
  /\ \A c \in Clients : probe[c].id # id
  /\ DbDelete(id)
  /\ UNCHANGED <<nextId, fn, adm, probe, up>>

NextMatch ==
  \/ \E c \in Clients, t \in Teams, g \in GivenNumbers : InsertTrigger(c, t, g)
  \/ \E c \in Clients : InsertWrite(c)
  \/ \E c \in Clients : InsertReturn(c)
  \/ \E id \in RecIds : MatchDelete(id)

SpecMatch == InitMatch /\ [][NextMatch]_vars

(***************************************************************************)
(* An admin's edit of a record whose extraction is in flight. The store's  *)
(* observer notes the last edit made: the record, the row the admin        *)
(* stored, and whether the record's extraction had been requested and had  *)
(* not yet written the record.                                             *)
(***************************************************************************)
NoEdit == [sid |-> 0, row |-> NoRow, inflight |-> FALSE]

\* the extraction of record sid is requested and has not written the record
ExtractionPending(sid) == fn.sid = sid /\ fn.pc \in {"ai", "backoff", "upd"}

InitEdit ==
  /\ records = [i \in RecIds |-> NoRow]
  /\ teams = [t \in Teams |-> ZeroStats]
  /\ nextId = 1
  /\ fn = FnIdle
  /\ adm = AdmIdle
  /\ probe = NoEdit
  /\ up = UpIdle

\* the upload flows request the extraction of the row they have inserted,
\* which has no placement yet
AnalyzeUploaded(sid) ==
  /\ Exists(records, sid)
  /\ records[sid].placement = NULL
  /\ AnalyzeStart(sid)

NextEdit ==
  \/ \E t \in Teams : handleFileUploadInsert(t)
  \/ \E sid \in RecIds : AnalyzeUploaded(sid)
  \/ \E sid \in RecIds, inp \in FormInputs, e \in BOOLEAN :
       handleUpdateScreenshotObserved(sid, inp[1], inp[2], e,
         [sid |-> sid,
          row |-> Row(records[sid].team, inp[1], inp[2], calculatePoints(inp[1], inp[2])),
          inflight |-> ExtractionPending(sid)])
  \/ FnStep
  \/ AdmStep

SpecEdit == InitEdit /\ [][NextEdit]_vars

(***************************************************************************)
(* The 12-screenshot limit of the upload flows. The store is represented   *)
(* by the number of match_screenshots rows of one team; each client holds  *)
(* the count it fetched last (uploadedScreenshots, teamScreenshotCounts)   *)
(* and its position in handleFileUpload.                                   *)
(***************************************************************************)
SlotClients == 1..2

\* files.length of a selection
Selections == 1..MaxFiles

SlotIdle(cached) == [pc |-> "idle", cached |-> cached, n |-> 0, i |-> 0]

InitSlots ==
  /\ records = [i \in RecIds |-> NoRow]
  /\ teams = [t \in Teams |-> ZeroStats]
  /\ nextId = 1
  /\ fn = FnIdle
  /\ adm = AdmIdle
  /\ up = UpIdle
  /\ probe = [count |-> 0, cl |-> [c \in SlotClients |-> SlotIdle(0)]]

\* fetchUserTeam / fetchTeams (on mount, on a realtime event): the client
\* counts the team's rows
SlotsFetch(c) ==
  /\ probe.cl[c].pc = "idle"
  /\ probe.cl[c].cached # probe.count
  /\ probe' = [probe EXCEPT !.cl[c].cached = probe.count]
  /\ UNCHANGED <<records, teams, nextId, fn, adm, up>>

\* PlayerDashboard.tsx 151-189, ScreenshotSubmission 114-164: the limit is
\* checked against the count the client holds, and the batch is cut
SlotsBegin(c, length, invalid) ==
  /\ probe.cl[c].pc = "idle"
  /\ LET remainingSlots == SlotLimit - probe.cl[c].cached
         maxFiles == Min(Min(length, remainingSlots), BatchLimit)
     IN IF remainingSlots <= 0 \/ invalid
          THEN UNCHANGED probe
          ELSE probe' = [probe EXCEPT !.cl[c] =
                           [pc |-> "loop", cached |-> probe.cl[c].cached,
                            n |-> maxFiles, i |-> 0]]
  /\ UNCHANGED <<records, teams, nextId, fn, adm, up>>

\* PlayerDashboard.tsx 191-255: the next file is stored and its row inserted,
\* unless the storage upload or the insert fails
SlotsInsert(c, failed) ==
  /\ probe.cl[c].pc = "loop"
  /\ probe.cl[c].i < probe.cl[c].n
  /\ probe' = [probe EXCEPT !.cl[c].i = @ + 1,
                            !.count = IF failed THEN @ ELSE @ + 1]
  /\ UNCHANGED <<records, teams, nextId, fn, adm, up>>

\* PlayerDashboard.tsx 257-272: after the last file, fetchUserTeam()
SlotsFinish(c) ==
  /\ probe.cl[c].pc = "loop"
  /\ probe.cl[c].i = probe.cl[c].n
  /\ probe' = [probe EXCEPT !.cl[c] = SlotIdle(probe.count)]
  /\ UNCHANGED <<records, teams, nextId, fn, adm, up>>

NextSlots ==
  \/ \E c \in SlotClients : SlotsFetch(c)
  \/ \E c \in SlotClients, length \in Selections, invalid \in BOOLEAN :
       SlotsBegin(c, length, invalid)
  \/ \E c \in SlotClients, failed \in BOOLEAN : SlotsInsert(c, failed)
  \/ \E c \in SlotClients : SlotsFinish(c)

SpecSlots == InitSlots /\ [][NextSlots]_vars

(***************************************************************************)
(* Properties. TablePoints and Aggregate are the specification's scoring   *)
(* table and aggregate function, written independently of the code above.  *)
(***************************************************************************)
TablePoints(p) ==
  IF p \in 1..8 THEN <<10, 6, 5, 4, 3, 2, 1, 1>>[p] ELSE 0

NullAsZero(x) == IF x = NULL THEN 0 ELSE x

Aggregate(recs, t) ==
  LET rs == {i \in RecIds : recs[i].team = t}
      placementPoints == Sum([i \in rs |-> TablePoints(recs[i].placement)], rs)
      totalKills == Sum([i \in rs |-> NullAsZero(recs[i].kills)], rs)
  IN [total_points |-> placementPoints + totalKills,
      placement_points |-> placementPoints,
      kill_points |-> totalKills,
      total_kills |-> totalKills,
      matches_played |-> Cardinality(rs),
      first_place_wins |-> Cardinality({i \in rs : recs[i].placement = 1})]

Consistent(t) == teams[t] = Aggregate(records, t)

\* no request is between its record write and its team write
Settled == fn.pc \in {"idle", "done"} /\ adm.pc \in {"idle", "done"}

\* C1: when requests run one at a time, then whenever no request is in
\* progress every team's six stored fields equal the aggregate of its current
\* records, and a team without records has all six fields 0.
C1_AggregatesMatchRecords ==
  Settled =>
    \A t \in Teams :
      /\ Consistent(t)
      /\ (TeamRows(records, t) = {} => teams[t] = ZeroStats)

\* C1 case: an extraction has completed for a team holding two records, one
\* of them still unanalysed.
C1_Witness ==
  /\ fn.pc = "done" /\ fn.status = 200
  /\ \E t \in Teams :
       /\ teams[t].matches_played = 2
       /\ teams[t].total_points > 0
       /\ \E i \in TeamRows(records, t) : records[i].placement = NULL

\* C2: when requests overlap freely, then once every request that was started
\* has finished, every team's stored aggregates equal the aggregate of the
\* final records.
C2_ConcurrentFinalAggregates ==
  (fn.pc \in {"idle", "done"} /\ adm.pc \in {"idle", "done"})
    => \A t \in Teams : teams[t] = Aggregate(records, t)

\* C3: in every observable state each team's stored aggregates reflect all
\* committed record changes of that team.
C3_AtomicRecompute == \A t \in Teams : Consistent(t)

\* the last response of the adapter was a non-2xx HTTP answer
LastNon2xx == fn.lastResp.status # 0 /\ ~IsOk(fn.lastResp.status)

\* C4: the adapter is about to call the AI endpoint again after a non-2xx
\* answer only if that answer was 429, 402 or 5xx.
C4_RetryOnlyTransient ==
  (fn.pc = "ai" /\ fn.calls > 0 /\ LastNon2xx)
    => (fn.lastResp.status \in {429, 402} \/ fn.lastResp.status \in 500..599)

\* C5: after a 2xx answer without a tool call the adapter does not go on to
\* another attempt.
C5_NoToolCallIsFinal ==
  (fn.pc = "ai" /\ fn.calls > 0) => fn.lastResp.body # "notool"

\* index.ts 25: the request lacks one of the three parameters
MissingParameter == ~fn.url \/ fn.sid = 0 \/ fn.tid = 0

\* an accepted request has ended without an extracted result
ExtractionFailed == fn.pc = "done" /\ ~MissingParameter /\ fn.placement = NULL

\* C6: an invocation calls the AI endpoint at most 3 times, and when the
\* attempts are used up the error it ends with is the error of its last attempt.
C6_AtMostThreeLastError ==
  /\ fn.calls <= 3
  /\ ExtractionFailed => fn.error = TryBody(fn.lastResp).error

\* C6 case: three attempts failed with different errors, the last one a 429.
C6_Witness ==
  /\ fn.pc = "done" /\ fn.status = 500 /\ fn.calls = 3
  /\ fn.lastResp.status = 429
  /\ fn.error = Err("AI error", 429)

\* a step of the invocation up to and including the end of the extraction
ExtractionStep ==
  /\ fn.pc \in {"idle", "ai", "backoff"}
  /\ fn' # fn
  /\ fn'.pc \in {"ai", "backoff", "upd", "done"}

\* C7: no step of the extraction writes a record or a team row, and an
\* invocation whose extraction failed ends with status 500 having written
\* neither.
C7_FailedExtractionWritesNothing ==
  /\ [][ExtractionStep => (records' = records /\ teams' = teams)]_vars
  /\ [](ExtractionFailed
          => fn.status = 500 /\ fn.recWrites = 0 /\ fn.teamWrites = 0)

\* C7 case: the extraction of a fresh upload failed on all attempts; the
\* record still has no placement, kills or points.
C7_Witness ==
  /\ fn.pc = "done" /\ fn.status = 500 /\ fn.placement = NULL /\ fn.calls = 3
  /\ Exists(records, fn.sid)
  /\ records[fn.sid] = Row(fn.tid, NULL, NULL, NULL)

\* C8: from the record update to the end of the invocation the record holds
\* the extracted placement and kills with points = TablePoints + kills, it was
\* written once, and the team's aggregates count it once, whatever the number
\* of attempts was.
C8_SuccessUpdatesOnce ==
  /\ fn.recWrites <= 1
  /\ fn.teamWrites <= 1
  /\ ((fn.pc \in {"sel", "team"} \/ (fn.pc = "done" /\ fn.status = 200))
        /\ Exists(records, fn.sid))
       => /\ fn.recWrites = 1
          /\ records[fn.sid] =
               Row(fn.tid, fn.placement, fn.kills, TablePoints(fn.placement) + fn.kills)
          /\ Consistent(fn.tid)

\* C8 case: the third attempt returned {1, 4}; the record holds 14 points and
\* is the team's only record.
C8_Witness ==
  /\ fn.pc = "sel" /\ fn.calls = 3
  /\ records[fn.sid] = Row(fn.tid, 1, 4, 14)
  /\ teams[fn.tid] = Stats(14, 10, 4, 4, 1, 1)

\* C9: the edge function's lookup, the SQL function and the client's lookup
\* all return the table value for 1..8 and 0 for every other integer and null.
C9_PlacementPointsAgree ==
  /\ probe.edge = TablePoints(probe.placement)
  /\ probe.sql = TablePoints(probe.placement)
  /\ probe.client = TablePoints(probe.placement)

\* C9 case: eighth place is worth one point in all three.
C9_Witness ==
  probe = [placement |-> 8, edge |-> 1, sql |-> 1, client |-> 1]

\* C10: every record with placement and kills has points = TablePoints(placement)
\* + kills, and every record without them has no points.
C10_PointsDerived ==
  \A i \in RecIds :
    Exists(records, i) =>
      /\ (records[i].placement # NULL /\ records[i].kills # NULL)
           => records[i].points = TablePoints(records[i].placement) + records[i].kills
      /\ (records[i].placement = NULL /\ records[i].kills = NULL)
           => records[i].points = NULL

\* C10 case: one record scored 14 and one still unanalysed.
C10_Witness ==
  \E i, j \in RecIds :
    /\ records[i].placement = 1 /\ records[i].kills = 4 /\ records[i].points = 14
    /\ Exists(records, j) /\ records[j].points = NULL

\* C11: whatever was stored before and whichever path ran, the team row a
\* recomputation writes is the aggregate of the team's current records: the
\* number of records, the kills with null as 0, the table points with null as
\* 0, the number of first places, and total = placement points + kill points.
C11_RecomputeIsAggregate ==
  probe # NoProbe =>
    LET rs == TeamRows(records, probe.team)
        row == teams[probe.team]
    IN /\ row = Aggregate(records, probe.team)
       /\ row.matches_played = Cardinality(rs)
       /\ row.total_points = row.placement_points + row.kill_points
       /\ row.kill_points = row.total_kills
       /\ (\A i \in rs : records[i].placement = NULL /\ records[i].kills = NULL)
            => row = Stats(0, 0, 0, 0, Cardinality(rs), 0)

\* C11 case: records {1,3} and {2,1} of team 1 give 20, 16, 4, 4, 2, 1 by the
\* edge function's sums, and team 2, left with stale values, is untouched.
C11_Witness ==
  /\ probe # NoProbe /\ probe.path = "edge" /\ probe.team = 1
  /\ probe.before = ZeroStats
  /\ records = <<Row(1, 1, 3, 13), Row(1, 2, 1, 7)>>
  /\ teams[1] = Stats(20, 16, 4, 4, 2, 1)

\* C12: a recomputation that directly follows another one for the same team,
\* the records being unchanged, leaves the six stored fields as they were.
C12_RecomputeIdempotent ==
  (probe # NoProbe /\ probe.runs = 2) => teams[probe.team] = probe.before

\* C12 case: the second run in a row for a team with two records, one of them
\* unanalysed, by the database function.
C12_Witness ==
  /\ probe # NoProbe /\ probe.runs = 2 /\ probe.path = "sql"
  /\ teams[probe.team].matches_played = 2
  /\ teams[probe.team].total_points = 13

\* C13: a step that deletes a record leaves the other records as they were
\* and the owning team's six aggregates equal to the aggregate of the
\* remaining records.
C13_DeleteRemovesContribution ==
  [][\A i \in RecIds :
       (Exists(records, i) /\ ~Exists(records', i))
         => /\ \A j \in RecIds \ {i} : records'[j] = records[j]
            /\ teams'[records[i].team] = Aggregate(records', records[i].team)]_vars

\* C13 case: two records were created, one has been deleted, and the team of
\* the remaining record {1, 4} holds 14, 10, 4, 4, 1, 1.
C13_Witness ==
  /\ nextId = 3
  /\ fn.pc = "idle" /\ adm.pc = "idle"
  /\ \E i \in RecIds :
       /\ records[i] = Row(1, 1, 4, 14)
       /\ \A j \in RecIds \ {i} : records[j] = NoRow
  /\ teams[1] = Stats(14, 10, 4, 4, 1, 1)
  /\ teams[2] = ZeroStats

\* C14: in every state, with requests overlapping freely, every team row has
\* total_points = placement_points + kill_points.
C14_TotalIsSum ==
  \A t \in Teams :
    teams[t].total_points = teams[t].placement_points + teams[t].kill_points

\* C14 case: the admin handler has just written the row of a team with the
\* records {1, 4} and {2, 0}: 20 = 16 + 4.
C14_Witness ==
  /\ adm.pc = "done" /\ adm.toast = "success"
  /\ \E t \in Teams :
       /\ teams[t].total_points = 20
       /\ teams[t].placement_points = 16
       /\ teams[t].kill_points = 4

\* C15: every stored record with a placement has it within 1..18 and has no
\* negative kills.
C15_StoredWithinBounds ==
  \A i \in RecIds :
    (Exists(records, i) /\ records[i].placement # NULL)
      => /\ records[i].placement >= 1 /\ records[i].placement <= 18
         /\ (records[i].kills = NULL \/ records[i].kills >= 0)

\* the upload handler sends a request that analyze-screenshot accepts
UploadInvokes == fn.pc = "idle" /\ fn'.pc = "ai"

\* C16: the upload handler calls analyze-screenshot only for the row it has
\* just inserted, and every row an upload inserted is still stored, whatever
\* the function answered.
C16_UploadNeverLost ==
  /\ [][UploadInvokes =>
          /\ up.pc = "invoke"
          /\ fn'.sid = up.sid /\ fn'.tid = up.team
          /\ Exists(records, up.sid)
          /\ records[up.sid].team = up.team]_vars
  /\ [](\A id \in RecIds : id < nextId => Exists(records, id))
  /\ [](up.pc = "await" => (Exists(records, up.sid) /\ records[up.sid].team = up.team))

\* C16 case: the function has answered 500 after three failed attempts and
\* the uploaded row is stored with no placement, kills or points.
C16_Witness ==
  /\ up.pc = "await"
  /\ fn.pc = "done" /\ fn.status = 500 /\ fn.calls = 3
  /\ records[up.sid] = Row(up.team, NULL, NULL, NULL)

PersistenceErrors ==
  {"Failed to update screenshot data", "Failed to fetch team data",
   "Failed to update team stats"}

PersistenceToasts ==
  {"Failed to update screenshot", "Failed to save manual entry",
   "Failed to recalculate team stats", "Failed to update team stats"}

\* C17: an operation in which a store call failed ends with the error
\* reported (status 500 with the message, or an error toast), and every team's
\* stored aggregates equal the aggregate of its stored records.
C17_FailureLeavesConsistent ==
  /\ (fn.pc = "done" /\ fn.error.msg \in PersistenceErrors)
       => (fn.status = 500 /\ \A t \in Teams : Consistent(t))
  /\ (fn.pc = "done" /\ fn.placement # NULL /\ fn.teamWrites = 0)
       => (fn.status = 500 /\ fn.error.msg \in PersistenceErrors)
  /\ (adm.pc = "done" /\ adm.toast \in PersistenceToasts)
       => \A t \in Teams : Consistent(t)
  /\ (adm.pc = "done" /\ adm.toast = "success") => \A t \in Teams : Consistent(t)

\* C17 case: the record was updated to {1, 4}, then the select of the team's
\* records failed; the record and the team row both show the update.
C17_Witness ==
  /\ fn.pc = "done" /\ fn.status = 500
  /\ fn.error.msg = "Failed to fetch team data"
  /\ fn.recWrites = 1
  /\ records[fn.sid] = Row(fn.tid, 1, 4, 14)
  /\ teams[fn.tid].total_points = 14

\* C18: a step in which the select of the team's records or the team update
\* fails leaves every team row as it was, and any step changes a team row
\* only to the full aggregate of the team's records.
C18_FailedRecomputeKeepsPrior ==
  [][/\ (fn.pc \in {"sel", "team"} /\ fn'.pc = "done" /\ fn'.status = 500)
          => teams' = teams
     /\ (adm.pc \in {"sel", "team"} /\ adm'.pc = "done" /\ adm'.toast # "success")
          => teams' = teams
     /\ \A t \in Teams :
          teams'[t] = teams[t] \/ teams'[t] = Aggregate(records', t)]_vars

\* C18 case: the team update of the function failed; the team row of the two
\* records {1, 4} and {2, 0} is as the last record mutation left it.
C18_Witness ==
  /\ fn.pc = "done" /\ fn.status = 500
  /\ fn.error.msg = "Failed to update team stats"
  /\ teams[fn.tid] = Stats(20, 16, 4, 4, 2, 1)

Authorized(p, t) ==
  p.role = "authenticated" /\ (OwnTeamSession(p, t) \/ has_role(p.uid, "admin"))

RanksBeforeOrLevel(a, b) ==
  \/ a.totalPoints > b.totalPoints
  \/ a.totalPoints = b.totalPoints /\ a.totalKills >= b.totalKills

\* C22: the standings hold the teams of the input, by points descending and
\* then kills descending; the input list is left as it was; the four
\* Standings components give the same order; and A(20,10), B(20,15), C(25,0)
\* come out as C, B, A.
C22_StandingsOrder ==
  probe.rendered =>
    (/\ probe.teams = probe.input
     /\ Len(probe.standings) = Len(probe.input)
     /\ \A t \in {probe.input[i] : i \in 1..Len(probe.input)} :
          \E k \in 1..Len(probe.standings) : probe.standings[k] = t
     /\ \A i, j \in 1..Len(probe.standings) :
          i < j => RanksBeforeOrLevel(probe.standings[i], probe.standings[j])
     /\ probe.columns = probe.standings
     /\ probe.admin = probe.standings
     /\ probe.podium = probe.standings
     /\ probe.input = <<Team(1, 20, 10), Team(2, 20, 15), Team(3, 25, 0)>>
          => probe.standings = <<Team(3, 25, 0), Team(2, 20, 15), Team(1, 20, 10)>>)

\* C22 case: A, B, C of the example have been rendered.
C22_Witness ==
  /\ probe.rendered
  /\ probe.input = <<Team(1, 20, 10), Team(2, 20, 15), Team(3, 25, 0)>>
  /\ probe.standings = <<Team(3, 25, 0), Team(2, 20, 15), Team(1, 20, 10)>>

\* C23: analyzeWithRetry, once called, ends by returning a pair or by
\* throwing, with at most 3 calls of the AI endpoint; every request is
\* answered, the answer stays as it is until the caller has it, and the
\* caller holds no result while the call runs and a whole pair when it
\* returned.
C23_AlwaysCompletes ==
  /\ (fn.pc \in {"ai", "backoff"}) ~> (fn.pc \in {"upd", "done"})
  /\ (fn.pc \in {"ai", "backoff", "upd", "sel", "team"}) ~> (fn.pc = "done")
  /\ [](fn.calls <= maxRetries /\ fn.attempt <= maxRetries)
  /\ [][fn.pc = "done" => (fn' = fn \/ fn' = FnIdle)]_vars
  /\ [](fn.pc \in {"ai", "backoff"} => (fn.placement = NULL /\ fn.kills = NULL))
  /\ [](fn.pc = "upd" => (fn.placement # NULL /\ fn.kills # NULL))

\* C23 case: the third call of the AI endpoint returned the pair {1, 4}.
C23_Witness ==
  /\ fn.pc = "upd" /\ fn.calls = 3
  /\ fn.placement = 1 /\ fn.kills = 4

\* C24: the function is in Backoff only between two attempts: after the n-th
\* failed attempt, n < 3, with a delay of n x 500 ms; after the third failed
\* attempt it fails without a further Backoff.
C24_BackoffOnlyBetweenAttempts ==
  fn.pc = "backoff" =>
    (/\ fn.attempt \in 1..(maxRetries - 1)
     /\ fn.delay = 500 * fn.attempt)

\* a record of team t is inserted, changed or deleted by the step
RecordMutation(t) ==
  \E i \in RecIds : records'[i] # records[i] /\ t \in {records[i].team, records'[i].team}

\* C25: a reset writes six zeros to the one team and changes no record and no
\* other team; every later insert, update or delete of a record of the team
\* sets its aggregates to the recompute over its records, so that between
\* requests a reset team holds the zeros or the full recompute.
C25_ResetThenRecompute ==
  /\ [][/\ (adm.pc = "idle" /\ adm'.op = "reset" /\ adm'.toast = "points have been reset")
             => /\ \A t \in Teams :
                     teams'[t] = IF probe' = LastReset(t) THEN ZeroStats ELSE teams[t]
                /\ records' = records
        /\ (adm.pc = "idle" /\ adm'.op = "reset" /\ adm'.toast # "points have been reset")
             => (teams' = teams /\ records' = records)
        /\ \A t \in Teams : RecordMutation(t) => teams'[t] = Aggregate(records', t)]_vars
  /\ [](\A t \in Teams :
          (probe = LastReset(t) /\ fn.pc \in {"idle", "done"} /\ adm.pc \in {"idle", "done"})
            => (teams[t] = ZeroStats \/ teams[t] = Aggregate(records, t)))

\* C25 case: a team was reset, and a later mutation of its records left it
\* with the recompute over its one record {1, 4}.
C25_Witness ==
  \E t \in Teams :
    /\ probe = LastReset(t)
    /\ adm.pc = "idle" /\ fn.pc = "idle"
    /\ Cardinality(TeamRows(records, t)) = 1
    /\ teams[t] = Stats(14, 10, 4, 4, 1, 1)

\* the function is working on a request
FnInFlight == fn.pc \in {"ai", "backoff", "upd", "sel", "team"}

\* C26: while the function works on the request for a file of the batch, the
\* handler waits for it and starts no storage upload, insert or invocation;
\* it moves on to the next file only when the response for the current one
\* is there.
C26_SequentialBatch ==
  /\ [](FnInFlight => (up.pc = "await" /\ fn.sid = up.sid /\ fn.tid = up.team))
  /\ [][(up.pc = "await" /\ up'.pc # "await")
          => (fn.pc = "done" /\ fn.sid = up.sid /\ fn' = FnIdle)]_vars
  /\ [][(up.pc \in {"store", "insert", "invoke", "await"} /\ up' # up /\ up'.pc = "store")
          => (up'.i = up.i + 1 /\ ~FnInFlight)]_vars

\* C26 case: the second file of a batch is about to be uploaded; the first
\* one was stored, inserted and analysed as {1, 4}.
C26_Witness ==
  /\ up.pc = "store" /\ up.i = 2
  /\ fn = FnIdle
  /\ Exists(records, 1) /\ records[1] = Row(up.team, 1, 4, 14)

\* C27: when a batch ends with the summary, uploadResults holds one entry
\* for each file of the batch, so the successes and the failures add up to
\* the number of files, and no more files are counted as successes than rows
\* of the batch were analysed.
C27_EveryFileCounted ==
  (up.pc = "done" /\ up.toast = "summary") =>
    (/\ Len(up.uploadResults) = up.n
     /\ \A k \in 1..up.n :
          Cardinality({j \in 1..Len(up.uploadResults) :
                         up.uploadResults[j].index = k - 1}) = 1
     /\ Cardinality({j \in 1..Len(up.uploadResults) : up.uploadResults[j].success})
          <= Cardinality({id \in RecIds : id >= up.first /\ records[id].placement # NULL}))

TeamNumbers(recs, t) == {recs[i].match_number : i \in TeamRows(recs, t)}

\* C29: an insert whose match_number is null or 0 gets 1 + the largest
\* match_number of the team's rows (1 when the team has none), rows of other
\* teams not counting; an insert with a positive match_number keeps it; and
\* the row is stored under that number.
C29_AutoAssignNextNumber ==
  /\ [][\A c \in Clients :
          (probe[c].pc = "idle" /\ probe'[c].pc = "assigned") =>
            LET t == probe'[c].team
                nums == TeamNumbers(records, t)
            IN /\ probe'[c].given \in {NULL, 0} =>
                    /\ nums = {} => probe'[c].match_number = 1
                    /\ nums # {} =>
                         /\ \E n \in nums : probe'[c].match_number = n + 1
                         /\ \A n \in nums : probe'[c].match_number > n
               /\ probe'[c].given > 0 => probe'[c].match_number = probe'[c].given]_vars
  /\ [](\A c \in Clients :
          probe[c].pc = "stored" =>
            records[probe[c].id] = MatchRow(probe[c].team, probe[c].match_number))

\* C29 case: a team whose one row has number 2 got a row inserted with no
\* number, stored as 3, while the other team holds no row.
C29_Witness ==
  \E c \in Clients :
    /\ probe[c].pc = "stored" /\ probe[c].given = NULL
    /\ probe[c].match_number = 3
    /\ TeamNumbers(records, probe[c].team) = {2, 3}

\* C30: no two rows of a team hold the same match_number, and an upload that
\* inserts with no match_number ends with its row stored.
C30_UniqueAndNoUploadLost ==
  /\ \A i, j \in RecIds :
       (i # j /\ Exists(records, i) /\ Exists(records, j)
          /\ records[i].team = records[j].team)
         => records[i].match_number # records[j].match_number
  /\ \A c \in Clients : probe[c].given \in {NULL, 0} => probe[c].pc # "failed"

\* C31: for every reachable record set and every team, the sums the edge
\* function and ScreenshotVerification compute from the stored points give the
\* same six values as the database function computes from placement and
\* kills; and the row an application path has computed when its select
\* returns is the row the trigger computes for those records.
C31_RecomputePathsAgree ==
  /\ [](\A t \in Teams :
          /\ EdgeTeamStats(records, t) = recalculate_team_stats(records, t)
          /\ ClientTeamStats(records, t) = recalculate_team_stats(records, t))
  /\ [][(fn.pc = "sel" /\ fn'.pc = "team")
          => fn'.stats = recalculate_team_stats(records', fn'.tid)]_vars
  /\ [][(adm.pc = "sel" /\ adm'.pc = "team")
          => adm'.stats = recalculate_team_stats(records', adm'.tid)]_vars

\* C31 case: the edge function has selected the rows of a team with a win
\* with 4 kills and a second place; its sums are the row the trigger stored.
C31_Witness ==
  /\ fn.pc = "team"
  /\ fn.stats = Stats(20, 16, 4, 4, 2, 1)
  /\ teams[fn.tid] = fn.stats
  /\ fn.stats = recalculate_team_stats(records, fn.tid)

\* C32: when the extraction writes a record that an admin's edit, made and
\* completed while the extraction was in flight, has set, the record keeps
\* the admin's placement, kills and points; and so it has them when the
\* extraction ends.
C32_EditSurvivesExtraction ==
  /\ [][(/\ fn.pc = "upd" /\ fn'.pc = "sel"
         /\ probe.inflight /\ probe.sid = fn.sid
         /\ adm.pc = "idle")
          => records'[fn.sid] = probe.row]_vars
  /\ []((/\ fn.pc = "done" /\ fn.status = 200
         /\ probe.inflight /\ probe.sid = fn.sid)
          => records[fn.sid] = probe.row)

\* C33: a success response means that the invocation's update found the
\* record and set it to the extracted placement, kills and points, that the
\* record is in the store when the team row is rewritten, and that the team
\* rewritten is the record's team.
C33_SuccessMeansRecordSet ==
  /\ []((fn.pc = "done" /\ fn.status = 200) => fn.recWrites = 1)
  /\ [][(fn.pc = "upd" /\ fn'.pc = "sel")
          => /\ Exists(records, fn.sid)
             /\ records'[fn.sid] = Row(fn.tid, fn.placement, fn.kills, fn.points)]_vars
  /\ [][(fn.pc = "team" /\ fn'.pc = "done" /\ fn'.status = 200)
          => /\ Exists(records, fn.sid)
             /\ records[fn.sid].team = fn.tid]_vars

\* C34: every stored team row, whichever path wrote it last (trigger, edge
\* function, admin handler or reset), has kill_points = total_kills and
\* 0 <= first_place_wins <= matches_played; so has every row an application
\* path has computed and is about to write.
C34_TeamRowInvariants ==
  /\ \A t \in Teams :
       /\ teams[t].kill_points = teams[t].total_kills
       /\ 0 <= teams[t].first_place_wins
       /\ teams[t].first_place_wins <= teams[t].matches_played
  /\ \A s \in {fn.stats, adm.stats} :
       /\ s.kill_points = s.total_kills
       /\ 0 <= s.first_place_wins
       /\ s.first_place_wins <= s.matches_played

\* C34 case: a team with a won match with 4 kills has been reset to zeros,
\* and the other team's row counts one match, one win and 4 kill points.
C34_Witness ==
  \E t, u \in Teams :
    /\ t # u
    /\ probe = LastReset(t) /\ teams[t] = ZeroStats
    /\ \E i \in TeamRows(records, t) : records[i].placement = 1 /\ records[i].kills = 4
    /\ teams[u].matches_played = 1 /\ teams[u].first_place_wins = 1
    /\ teams[u].kill_points = 4 /\ teams[u].total_kills = 4

\* C35: the team never has more than 12 rows; no upload is started when the
\* team has 12 rows; and a batch is at most min(4, 12 - the team's row count
\* at its start) files.
C35_AtMostTwelveByUpload ==
  /\ [](probe.count <= SlotLimit)
  /\ [][\A c \in SlotClients :
          (probe.cl[c].pc = "idle" /\ probe'.cl[c].pc = "loop")
            => /\ probe.count < SlotLimit
               /\ probe'.cl[c].n <= Min(BatchLimit, SlotLimit - probe.count)]_vars
====
